---- MODULE Spec2Model ----
(***************************************************************************)
(* Model of services/price-engine/main.cpp: the PriceEngine class, its two *)
(* periodic threads (calculatePrices, progressStory), the detached timer   *)
(* threads of triggerMajorEvent, and the main thread that loads, starts,   *)
(* reads summaries and shuts the engine down.                              *)
(*                                                                         *)
(* Numbers.  The source computes in double.  The model is fixed point:     *)
(*   - a stored price is a whole number of half-mills (1/2000 dollar), so  *)
(*     0.01 is 20 and 10000 is 20000000;                                   *)
(*   - the running product of calculateNewPrice is kept in mills and       *)
(*     floor-rounded after each factor (as each floating multiplication    *)
(*     rounds); the last factor, 1.5 or 1.0, is 3/2 or 2/2 and takes mills *)
(*     to half-mills without further rounding;                             *)
(*   - growth rates are hundredths, arc multipliers tenths, volatility     *)
(*     tenths, Gaussian draws tenths, uniform draws hundredths, bounties   *)
(*     thousands of berries, percentages whole percents (floor).           *)
(*                                                                         *)
(* Registry.  loadCharacters pushes 17 characters; no character reads or   *)
(* writes another one's fields, so the model keeps the projection of the   *)
(* registry onto a tracked subsequence of the roster (the loop iterations  *)
(* over the other characters change nothing that is tracked).              *)
(*                                                                         *)
(* Threads.  A sleep_for delays a thread and orders nothing, so a sleeping *)
(* thread may take its next step at any time.  The bool running and the    *)
(* flag major_event_active are read and written without synchronisation;   *)
(* a racing read yields the value before or after the racing write, which  *)
(* is the interleaving of the two steps.                                   *)
(*                                                                         *)
(* History variables.  latest_activation and ref_price are not fields of   *)
(* the engine: the first records which activation set the active-event     *)
(* flag last (a timer identity, the arc sequencer, or 0 once the timer of  *)
(* that activation has fired), the second the prices the same draws give   *)
(* under one fixed schedule of the timers and the arc thread.              *)
(* update_count counts the iterations of the loop of calculatePrices that  *)
(* repriced each character.                                                *)
(***************************************************************************)
EXTENDS Integers, Sequences, FiniteSets

VARIABLES
    characters,         \* vector<Character> characters (tracked projection)
    market_data,        \* MarketData market_data
    current_arc_index,  \* int current_arc_index
    running,            \* bool running
    data_mutex,         \* mutex data_mutex: "free" or the holding thread
    pc,                 \* position of the threads "main", "calc", "story"
    calc_i,             \* calculatePrices: position of the range-for loop
    old_price,          \* calculatePrices: the local old_price
    timers,             \* detached timer threads that have not fired yet
    latest_activation,  \* history: which activation set the flag last
    ref_price,          \* history: prices of the reference schedule
    update_count        \* history: how often each character was repriced

vars == <<characters, market_data, current_arc_index, running, data_mutex,
          pc, calc_i, old_price, timers, latest_activation, ref_price,
          update_count>>

-----------------------------------------------------------------------------
(* Bounds of the model *)

\* the tick loop is explored up to this many simulated days
MaxDays == 101

\* at most this many detached timer threads are pending at once
MaxTimers == 2

\* the price-model specification runs this many ticks from each sample
MaxPriceTicks == 2

\* the fair specification explores the tick loop up to this many days
MaxFairDays == 4

\* the year-end specification runs this many ticks from each sample
MaxYearTicks == 3

-----------------------------------------------------------------------------
(* Program constants *)

\* new_price = max(new_price, 0.01), in half-mills
MinPrice == 20

\* new_price = min(new_price, 10000.0), in half-mills
MaxPrice == 20000000

\* if (current_price < 10.0), in half-mills
ColdStartThreshold == 20000

\* market_data.days_elapsed % 365
DaysPerYear == 365

\* market_data.days_elapsed % 100
ArcCadence == 100

\* event_chance(gen) < 0.1, in hundredths
EventProbability == 10

\* Character::volatility(0.3), in tenths
DefaultVolatility == 3

\* growth_factor(0.8, 1.5): the uniform draw lies in [0.80, 1.50), hundredths
GrowthFactorLow == 80
GrowthFactorHigh == 150

-----------------------------------------------------------------------------
(* Arithmetic *)

Min(a, b) == IF a < b THEN a ELSE b

Max(a, b) == IF a > b THEN a ELSE b

\* floor(a * n / d) for d > 0, computed without an intermediate a * n
MulDiv(a, n, d) == (a \div d) * n + (((a % d) * n) \div d)

-----------------------------------------------------------------------------
(* The roster of loadCharacters and the arc table of the constructor *)

Roster ==
    <<[id |-> 1,  name |-> "Monkey D. Luffy",   crew |-> "Straw Hat Pirates",  bounty |-> 3000000, growth |-> 15],
      [id |-> 2,  name |-> "Roronoa Zoro",      crew |-> "Straw Hat Pirates",  bounty |-> 1111000, growth |-> 12],
      [id |-> 3,  name |-> "Nami",              crew |-> "Straw Hat Pirates",  bounty |-> 366000,  growth |-> 8],
      [id |-> 4,  name |-> "Usopp",             crew |-> "Straw Hat Pirates",  bounty |-> 500000,  growth |-> 7],
      [id |-> 5,  name |-> "Sanji",             crew |-> "Straw Hat Pirates",  bounty |-> 1032000, growth |-> 11],
      [id |-> 6,  name |-> "Tony Tony Chopper", crew |-> "Straw Hat Pirates",  bounty |-> 1,       growth |-> 6],
      [id |-> 7,  name |-> "Nico Robin",        crew |-> "Straw Hat Pirates",  bounty |-> 930000,  growth |-> 10],
      [id |-> 8,  name |-> "Franky",            crew |-> "Straw Hat Pirates",  bounty |-> 394000,  growth |-> 9],
      [id |-> 9,  name |-> "Brook",             crew |-> "Straw Hat Pirates",  bounty |-> 383000,  growth |-> 8],
      [id |-> 10, name |-> "Jinbe",             crew |-> "Straw Hat Pirates",  bounty |-> 1100000, growth |-> 13],
      [id |-> 11, name |-> "Kaido",             crew |-> "Beast Pirates",      bounty |-> 4611100, growth |-> 20],
      [id |-> 12, name |-> "Big Mom",           crew |-> "Big Mom Pirates",    bounty |-> 4388000, growth |-> 18],
      [id |-> 13, name |-> "Blackbeard",        crew |-> "Blackbeard Pirates", bounty |-> 3996000, growth |-> 25],
      [id |-> 14, name |-> "Doflamingo",        crew |-> "Donquixote Pirates", bounty |-> 340000,  growth |-> 14],
      [id |-> 15, name |-> "Akainu",            crew |-> "Marines",            bounty |-> 0,       growth |-> 16],
      [id |-> 16, name |-> "Kizaru",            crew |-> "Marines",            bounty |-> 0,       growth |-> 15],
      [id |-> 17, name |-> "Aokiji",            crew |-> "Marines",            bounty |-> 0,       growth |-> 14]>>

\* the characters the main specification tracks (ids of the roster)
Tracked == <<1, 11>>

\* Character::Character: every field the price model and the tick use
Character(r) ==
    [id |-> r.id, name |-> r.name, crew |-> r.crew, bounty |-> r.bounty,
     current_price |-> 0, base_growth_rate |-> r.growth,
     volatility |-> DefaultVolatility, weekly_change |-> 0]

\* the registry after loadCharacters, projected onto the ids of track
LoadedCharacters(track) == [k \in DOMAIN track |-> Character(Roster[track[k]])]

story_arcs ==
    <<"East Blue Saga", "Alabasta Saga", "Sky Island Saga", "Water 7 Saga",
      "Thriller Bark Saga", "Summit War Saga", "Fish-Man Island Saga",
      "Dressrosa Saga", "Zou Saga", "Whole Cake Island Saga",
      "Wano Country Saga", "Final Saga">>

\* story_arcs[i] of the source (0-based); reading past the end yields no arc
ArcAt(i) == IF i + 1 \in DOMAIN story_arcs THEN story_arcs[i + 1] ELSE "?"

\* story_arc_multipliers[arc], in tenths; map::operator[] gives 0.0 otherwise
story_arc_multipliers(arc) ==
    CASE arc = "East Blue Saga"         -> 10
      [] arc = "Alabasta Saga"          -> 15
      [] arc = "Sky Island Saga"        -> 13
      [] arc = "Water 7 Saga"           -> 20
      [] arc = "Thriller Bark Saga"     -> 14
      [] arc = "Summit War Saga"        -> 30
      [] arc = "Fish-Man Island Saga"   -> 16
      [] arc = "Dressrosa Saga"         -> 22
      [] arc = "Zou Saga"               -> 18
      [] arc = "Whole Cake Island Saga" -> 25
      [] arc = "Wano Country Saga"      -> 40
      [] arc = "Final Saga"             -> 50
      [] OTHER                          -> 0

\* round(100 * log10(1000 * bountyK + 1)) for the bounties of the roster
Log10x100(bountyK) ==
    CASE bountyK = 3000000 -> 948
      [] bountyK = 1111000 -> 905
      [] bountyK = 366000  -> 856
      [] bountyK = 500000  -> 870
      [] bountyK = 1032000 -> 901
      [] bountyK = 1       -> 300
      [] bountyK = 930000  -> 897
      [] bountyK = 394000  -> 860
      [] bountyK = 383000  -> 858
      [] bountyK = 1100000 -> 904
      [] bountyK = 4611100 -> 966
      [] bountyK = 4388000 -> 964
      [] bountyK = 3996000 -> 960
      [] bountyK = 340000  -> 853
      [] OTHER             -> 0

-----------------------------------------------------------------------------
(* The Price Model: calculateNewPrice and getStoryMultiplier *)

\* getStoryMultiplier, in tenths
getStoryMultiplier(character, current_arc) ==
    LET base_multiplier == story_arc_multipliers(current_arc)
    IN  IF current_arc = "Summit War Saga" /\ character.name = "Monkey D. Luffy"
        THEN base_multiplier * 2
        ELSE IF current_arc = "Wano Country Saga" /\ character.name = "Monkey D. Luffy"
        THEN base_multiplier * 3
        ELSE IF current_arc = "Wano Country Saga" /\ character.name = "Kaido"
        THEN (base_multiplier * 5) \div 2
        ELSE base_multiplier

BaseGrowthNoBoost(character) == character.base_growth_rate

\* base_growth, doubled while the price is low; hundredths
BaseGrowth(character) ==
    IF character.current_price < ColdStartThreshold
    THEN character.base_growth_rate * 2
    ELSE character.base_growth_rate

\* time_factor = 1.0 + base_growth * story_multiplier, numerator over 1000
TimeFactor(character, current_arc) ==
    1000 + BaseGrowth(character) * getStoryMultiplier(character, current_arc)

\* volatility_factor = 1.0 + price_volatility(gen) * volatility, over 100
VolatilityFactor(character, vol_draw) == 100 + vol_draw * character.volatility

\* bounty_factor = 1.0 + log10(bounty + 1) * 0.02, numerator over 5000
BountyFactor(character) ==
    IF character.bounty > 0 THEN 5000 + Log10x100(character.bounty) ELSE 5000

\* crew_factor, numerator over 100
CrewFactor(character) ==
    IF character.crew = "Straw Hat Pirates" THEN 120
    ELSE IF character.crew = "Beast Pirates" \/ character.crew = "Big Mom Pirates"
    THEN 115
    ELSE 100

EventFactorDouble(major_event_active) == IF major_event_active THEN 4 ELSE 2

\* event_factor = major_event_active ? 1.5 : 1.0, numerator over 2
EventFactor(major_event_active) == IF major_event_active THEN 3 ELSE 2

BootstrapPriceWhole(growth_draw) == growth_draw * 20

\* new_price = growth_factor(gen) * 0.5: hundredths to half-mills
BootstrapPrice(growth_draw) == growth_draw * 10

ClampPriceNoFloor(new_price) == Min(new_price, MaxPrice)

\* new_price = max(new_price, 0.01); new_price = min(new_price, 10000.0)
ClampPrice(new_price) == Min(Max(new_price, MinPrice), MaxPrice)

\* the product current_price * time_factor * volatility_factor * bounty_factor
\* * crew_factor * event_factor, left to right; the result is in half-mills
GrownPrice(character, md, vol_draw) ==
    LET x1 == MulDiv(character.current_price, TimeFactor(character, md.current_arc), 2 * 1000)
        x2 == MulDiv(x1, VolatilityFactor(character, vol_draw), 100)
        x3 == MulDiv(x2, BountyFactor(character), 5000)
        x4 == MulDiv(x3, CrewFactor(character), 100)
    IN  x4 * EventFactor(md.major_event_active)

\* calculateNewPrice; vol_draw is the draw of price_volatility(gen) and
\* growth_draw the draw of growth_factor(gen)
calculateNewPrice(character, md, vol_draw, growth_draw) ==
    ClampPrice(IF character.current_price = 0
               THEN BootstrapPrice(growth_draw)
               ELSE GrownPrice(character, md, vol_draw))

PercentChangeNoBase(old, new) ==
    IF old > 0 THEN MulDiv(new - old, 100, old) ELSE 0

\* character.weekly_change as calculatePrices computes it; whole percents
PercentChange(old, new) ==
    IF old > 0 THEN MulDiv(new - old, 100, old)
    ELSE IF new > 0 THEN 100 ELSE 0

-----------------------------------------------------------------------------
(* Random draws.  The engine draws from gen; the model draws from sets. *)

\* price_volatility(gen) in the main specification: one fixed draw, tenths
VolDraws == {40}

\* growth_factor(gen) in the main specification: one fixed draw, hundredths
GrowthDraws == {100}

\* event_chance(gen), hundredths: one draw below 0.1 and one above
EventDraws == {5, 50}

\* price_volatility(gen) in the price-model specification, tenths
PriceVolDraws == {-40, 0, 40}

\* growth_factor(gen) in the price-model specification, hundredths
PriceGrowthDraws == {GrowthFactorLow, 115, GrowthFactorHigh - 1}

-----------------------------------------------------------------------------
(* Initial state: the engine after PriceEngine::PriceEngine *)

\* the activation of progressStory, which spawns no timer: an identity that
\* no timer thread has
ArcActivation == MaxTimers + 1

Init ==
    /\ characters = <<>>
    /\ market_data = [current_year |-> 1, days_elapsed |-> 0,
                      major_event_active |-> FALSE, current_arc |-> ArcAt(0)]
    /\ current_arc_index = 0
    /\ running = FALSE
    /\ data_mutex = "free"
    /\ pc = [main |-> "load", calc |-> "idle", story |-> "idle"]
    /\ calc_i = 1
    /\ old_price = 0
    /\ timers = {}
    /\ latest_activation = 0
    /\ ref_price = <<>>
    /\ update_count = <<>>

-----------------------------------------------------------------------------
(* The main thread: main() and ~PriceEngine *)

\* engine.loadCharacters()
MainLoad ==
    /\ pc.main = "load"
    /\ characters' = LoadedCharacters(Tracked)
    /\ ref_price' = [k \in DOMAIN Tracked |-> 0]
    /\ update_count' = [k \in DOMAIN Tracked |-> 0]
    /\ pc' = [pc EXCEPT !.main = "start"]
    /\ UNCHANGED <<market_data, current_arc_index, running, data_mutex,
                   calc_i, old_price, timers, latest_activation>>

\* engine.startPriceCalculation()
MainStart ==
    /\ pc.main = "start"
    /\ ~running
    /\ running' = TRUE
    /\ pc' = [main |-> "summary", calc |-> "check", story |-> "check"]
    /\ UNCHANGED <<characters, market_data, current_arc_index, data_mutex,
                   calc_i, old_price, timers, latest_activation, ref_price,
                   update_count>>

\* engine.printMarketSummary(): lock_guard taken.  main prints 13 summaries
\* 10 s apart; no sleep orders the threads, so the model lets main print any
\* number of them before it returns.
MainSummaryLock ==
    /\ pc.main = "summary"
    /\ data_mutex = "free"
    /\ data_mutex' = "main"
    /\ pc' = [pc EXCEPT !.main = "in_summary"]
    /\ UNCHANGED <<characters, market_data, current_arc_index, running,
                   calc_i, old_price, timers, latest_activation, ref_price,
                   update_count>>

\* engine.printMarketSummary(): the summary is printed, lock_guard released
MainSummaryUnlock ==
    /\ pc.main = "in_summary"
    /\ data_mutex' = "free"
    /\ pc' = [pc EXCEPT !.main = "summary"]
    /\ UNCHANGED <<characters, market_data, current_arc_index, running,
                   calc_i, old_price, timers, latest_activation, ref_price,
                   update_count>>

\* main returns: ~PriceEngine calls stopPriceCalculation, running = false
MainStop ==
    /\ pc.main = "summary"
    /\ running
    /\ running' = FALSE
    /\ pc' = [pc EXCEPT !.main = "join_calc"]
    /\ UNCHANGED <<characters, market_data, current_arc_index, data_mutex,
                   calc_i, old_price, timers, latest_activation, ref_price,
                   update_count>>

ThreadFinishedNoWait(t) == TRUE

\* thread::join returns once the thread function has returned
ThreadFinished(t) == pc[t] = "done"

\* calculation_thread.join()
MainJoinCalc ==
    /\ pc.main = "join_calc"
    /\ ThreadFinished("calc")
    /\ pc' = [pc EXCEPT !.main = "join_story"]
    /\ UNCHANGED <<characters, market_data, current_arc_index, running,
                   data_mutex, calc_i, old_price, timers, latest_activation,
                   ref_price, update_count>>

\* story_progression_thread.join(); stopPriceCalculation returns
MainJoinStory ==
    /\ pc.main = "join_story"
    /\ ThreadFinished("story")
    /\ pc' = [pc EXCEPT !.main = "stopped"]
    /\ UNCHANGED <<characters, market_data, current_arc_index, running,
                   data_mutex, calc_i, old_price, timers, latest_activation,
                   ref_price, update_count>>

\* return 0 of main, after ~PriceEngine: the process ends, and the detached
\* timer threads that are still asleep end with it
MainExit ==
    /\ pc.main = "stopped"
    /\ pc' = [pc EXCEPT !.main = "exited"]
    /\ UNCHANGED <<characters, market_data, current_arc_index, running,
                   data_mutex, calc_i, old_price, timers, latest_activation,
                   ref_price, update_count>>

-----------------------------------------------------------------------------
(* The Event Trigger: triggerMajorEvent and its detached timer threads *)

\* the thread triggerMajorEvent spawns: the lowest unused timer identity
NewTimer ==
    CHOOSE t \in (1..MaxTimers) \ timers :
        \A u \in (1..MaxTimers) \ timers : t <= u

\* the detached lambda: sleep_for(10 s), then major_event_active = false,
\* with no lock held and whatever has happened to the flag since; a timer
\* thread runs only while the process lives
TimerFire ==
    \E t \in timers :
        /\ pc.main # "exited"
        /\ market_data' = [market_data EXCEPT !.major_event_active = FALSE]
        /\ timers' = timers \ {t}
        /\ latest_activation' = IF latest_activation = t THEN 0 ELSE latest_activation
        /\ UNCHANGED <<characters, current_arc_index, running, data_mutex, pc,
                       calc_i, old_price, ref_price, update_count>>

-----------------------------------------------------------------------------
(* The Update Loop: calculatePrices *)

\* while (running), and the sleep_for(1 s) that follows a tick; the model
\* lets the loop go on while days_elapsed is below limit
CalcCheck(limit) ==
    /\ pc.calc = "check"
    /\ running => market_data.days_elapsed < limit
    /\ pc' = [pc EXCEPT !.calc = IF running THEN "lock" ELSE "done"]
    /\ UNCHANGED <<characters, market_data, current_arc_index, running,
                   data_mutex, calc_i, old_price, timers, latest_activation,
                   ref_price, update_count>>

\* lock_guard<mutex> lock(data_mutex)
CalcLock ==
    /\ pc.calc = "lock"
    /\ data_mutex = "free"
    /\ data_mutex' = "calc"
    /\ pc' = [pc EXCEPT !.calc = "days"]
    /\ UNCHANGED <<characters, market_data, current_arc_index, running,
                   calc_i, old_price, timers, latest_activation, ref_price,
                   update_count>>

CalcDaysStaleTest ==
    /\ pc.calc = "days"
    /\ LET days == market_data.days_elapsed + 1
       IN  market_data' =
               [market_data EXCEPT
                   !.days_elapsed = days,
                   !.current_year =
                       IF market_data.days_elapsed % DaysPerYear = 0
                       THEN @ + 1 ELSE @]
    /\ calc_i' = 1
    /\ pc' = [pc EXCEPT !.calc = "loop"]
    /\ UNCHANGED <<characters, current_arc_index, running, data_mutex,
                   old_price, timers, latest_activation, ref_price,
                   update_count>>

CalcDaysSkipFirst ==
    /\ pc.calc = "days"
    /\ LET days == market_data.days_elapsed + 1
       IN  market_data' =
               [market_data EXCEPT
                   !.days_elapsed = days,
                   !.current_year = IF days % DaysPerYear = 0 THEN @ + 1 ELSE @]
    /\ calc_i' = 2
    /\ pc' = [pc EXCEPT !.calc = "loop"]
    /\ UNCHANGED <<characters, current_arc_index, running, data_mutex,
                   old_price, timers, latest_activation, ref_price,
                   update_count>>

\* days_elapsed++, the year rolls over every 365 days; the loop begins
CalcDays ==
    /\ pc.calc = "days"
    /\ LET days == market_data.days_elapsed + 1
       IN  market_data' =
               [market_data EXCEPT
                   !.days_elapsed = days,
                   !.current_year = IF days % DaysPerYear = 0 THEN @ + 1 ELSE @]
    /\ calc_i' = 1
    /\ pc' = [pc EXCEPT !.calc = "loop"]
    /\ UNCHANGED <<characters, current_arc_index, running, data_mutex,
                   old_price, timers, latest_activation, ref_price,
                   update_count>>

\* the context of the reference schedule: every timer fires before the next
\* tick and progressStory never wakes on a multiple of 100 days
RefContext ==
    [market_data EXCEPT !.major_event_active = FALSE, !.current_arc = ArcAt(0)]

\* one iteration of for (auto& character : characters)
CalcEntity(vol_draws, growth_draws) ==
    /\ pc.calc = "loop"
    /\ calc_i \in DOMAIN characters
    /\ \E vol_draw \in vol_draws, growth_draw \in growth_draws :
        LET character == characters[calc_i]
            new_price == calculateNewPrice(character, market_data, vol_draw, growth_draw)
        IN  /\ old_price' = character.current_price
            /\ characters' =
                   [characters EXCEPT
                       ![calc_i].current_price = new_price,
                       ![calc_i].weekly_change =
                           PercentChange(character.current_price, new_price)]
            /\ ref_price' =
                   [ref_price EXCEPT
                       ![calc_i] = calculateNewPrice(
                                       [character EXCEPT !.current_price = ref_price[calc_i]],
                                       RefContext, vol_draw, growth_draw)]
    /\ update_count' = [update_count EXCEPT ![calc_i] = @ + 1]
    /\ calc_i' = calc_i + 1
    /\ UNCHANGED <<market_data, current_arc_index, running, data_mutex, pc,
                   timers, latest_activation>>

\* after the loop: if (event_chance(gen) < 0.1) triggerMajorEvent(); the
\* lock_guard is released.  A draw below 0.1 needs a free timer identity.
CalcEvent ==
    /\ pc.calc = "loop"
    /\ calc_i \notin DOMAIN characters
    /\ \E event_draw \in EventDraws :
        IF event_draw < EventProbability
        THEN /\ Cardinality(timers) < MaxTimers
             /\ market_data' = [market_data EXCEPT !.major_event_active = TRUE]
             /\ timers' = timers \cup {NewTimer}
             /\ latest_activation' = NewTimer
        ELSE UNCHANGED <<market_data, timers, latest_activation>>
    /\ data_mutex' = "free"
    /\ old_price' = 0
    /\ pc' = [pc EXCEPT !.calc = "check"]
    /\ UNCHANGED <<characters, current_arc_index, running, calc_i, ref_price,
                   update_count>>

-----------------------------------------------------------------------------
(* The Arc Sequencer: progressStory *)

StoryCheckNeverStops ==
    /\ pc.story = "check"
    /\ pc' = [pc EXCEPT !.story = "lock"]
    /\ UNCHANGED <<characters, market_data, current_arc_index, running,
                   data_mutex, calc_i, old_price, timers, latest_activation,
                   ref_price, update_count>>

\* while (running), then sleep_for(30 s)
StoryCheck ==
    /\ pc.story = "check"
    /\ pc' = [pc EXCEPT !.story = IF running THEN "lock" ELSE "done"]
    /\ UNCHANGED <<characters, market_data, current_arc_index, running,
                   data_mutex, calc_i, old_price, timers, latest_activation,
                   ref_price, update_count>>

\* lock_guard<mutex> lock(data_mutex)
StoryLock ==
    /\ pc.story = "lock"
    /\ data_mutex = "free"
    /\ data_mutex' = "story"
    /\ pc' = [pc EXCEPT !.story = "body"]
    /\ UNCHANGED <<characters, market_data, current_arc_index, running,
                   calc_i, old_price, timers, latest_activation, ref_price,
                   update_count>>

NotPastLastArc(index) == index <= Len(story_arcs) - 1

\* current_arc_index < story_arcs.size() - 1
NotAtLastArc(index) == index < Len(story_arcs) - 1

StoryBodyKeepsLock ==
    /\ pc.story = "body"
    /\ IF /\ market_data.days_elapsed > 0
          /\ market_data.days_elapsed % ArcCadence = 0
          /\ NotAtLastArc(current_arc_index)
       THEN /\ current_arc_index' = current_arc_index + 1
            /\ market_data' = [market_data EXCEPT
                                  !.current_arc = ArcAt(current_arc_index + 1),
                                  !.major_event_active = TRUE]
            /\ latest_activation' = ArcActivation
       ELSE UNCHANGED <<current_arc_index, market_data, latest_activation>>
    /\ pc' = [pc EXCEPT !.story = "check"]
    /\ UNCHANGED <<characters, running, data_mutex, calc_i, old_price, timers,
                   ref_price, update_count>>

StoryBodyAlwaysActivates ==
    /\ pc.story = "body"
    /\ IF /\ market_data.days_elapsed > 0
          /\ market_data.days_elapsed % ArcCadence = 0
       THEN /\ current_arc_index' =
                   IF NotAtLastArc(current_arc_index)
                   THEN current_arc_index + 1 ELSE current_arc_index
            /\ market_data' = [market_data EXCEPT
                                  !.current_arc = ArcAt(current_arc_index'),
                                  !.major_event_active = TRUE]
            /\ latest_activation' = ArcActivation
       ELSE UNCHANGED <<current_arc_index, market_data, latest_activation>>
    /\ data_mutex' = "free"
    /\ pc' = [pc EXCEPT !.story = "check"]
    /\ UNCHANGED <<characters, running, calc_i, old_price, timers, ref_price,
                   update_count>>

\* the body of the loop under the lock; the lock_guard is released
StoryBody ==
    /\ pc.story = "body"
    /\ IF /\ market_data.days_elapsed > 0
          /\ market_data.days_elapsed % ArcCadence = 0
          /\ NotAtLastArc(current_arc_index)
       THEN /\ current_arc_index' = current_arc_index + 1
            /\ market_data' = [market_data EXCEPT
                                  !.current_arc = ArcAt(current_arc_index + 1),
                                  !.major_event_active = TRUE]
            /\ latest_activation' = ArcActivation
       ELSE UNCHANGED <<current_arc_index, market_data, latest_activation>>
    /\ data_mutex' = "free"
    /\ pc' = [pc EXCEPT !.story = "check"]
    /\ UNCHANGED <<characters, running, calc_i, old_price, timers, ref_price,
                   update_count>>

-----------------------------------------------------------------------------
(* Specifications *)

Next ==
    \/ MainLoad
    \/ MainStart
    \/ MainSummaryLock
    \/ MainSummaryUnlock
    \/ MainStop
    \/ MainJoinCalc
    \/ MainJoinStory
    \/ MainExit
    \/ CalcCheck(MaxDays)
    \/ CalcLock
    \/ CalcDays
    \/ CalcEntity(VolDraws, GrowthDraws)
    \/ CalcEvent
    \/ TimerFire
    \/ StoryCheck
    \/ StoryLock
    \/ StoryBody

\* the engine from its construction, with the price draws fixed
Spec == Init /\ [][Next]_vars

\* the steps of the thread of calculatePrices
CalcStep(limit) ==
    \/ CalcCheck(limit)
    \/ CalcLock
    \/ CalcDays
    \/ CalcEntity(VolDraws, GrowthDraws)
    \/ CalcEvent

\* the steps of the thread of progressStory
StoryStep == StoryCheck \/ StoryLock \/ StoryBody

\* the steps of main inside stopPriceCalculation
JoinStep == MainJoinCalc \/ MainJoinStory

NextFair ==
    \/ MainLoad
    \/ MainStart
    \/ MainSummaryLock
    \/ MainSummaryUnlock
    \/ MainStop
    \/ MainJoinCalc
    \/ MainJoinStory
    \/ MainExit
    \/ CalcCheck(MaxFairDays)
    \/ CalcLock
    \/ CalcDays
    \/ CalcEntity(VolDraws, GrowthDraws)
    \/ CalcEvent
    \/ TimerFire
    \/ StoryCheck
    \/ StoryLock
    \/ StoryBody

\* the engine under a fair scheduler: a thread that can keep running gets to
\* run (its sleep_for ends, a join whose thread has returned returns); main
\* decides on its own when to stop, and no fairness is asked of the timers
SpecFair ==
    /\ Init
    /\ [][NextFair]_vars
    /\ WF_vars(CalcStep(MaxFairDays))
    /\ WF_vars(StoryStep)
    /\ WF_vars(JoinStep)

-----------------------------------------------------------------------------
(* The price-model specification: the Update Loop and the timers, run for  *)
(* MaxPriceTicks ticks with free draws, from the freshly started engine    *)
(* and from sampled states of a started engine on day 100.                 *)

\* the characters tracked, one at a time (ids of the roster)
PriceTracked == {1, 7, 11, 15}

\* sampled prices of a running engine, half-mills
PriceSamples == {MinPrice, 800, ColdStartThreshold - 2, ColdStartThreshold,
                 1000000, MaxPrice}

\* sampled positions of the Arc Sequencer
ArcSamples == {0, 5, 10, 11}

InitPrice ==
    /\ \E id \in PriceTracked, price \in PriceSamples \cup {0}, arc \in ArcSamples,
          flag \in BOOLEAN :
        /\ price = 0 => arc = 0
        /\ flag => arc > 0
        /\ characters = <<[Character(Roster[id]) EXCEPT !.current_price = price]>>
        /\ ref_price = <<price>>
        /\ update_count = <<IF price = 0 THEN 0 ELSE ArcCadence>>
        /\ market_data = [current_year |-> 1,
                          days_elapsed |-> IF price = 0 THEN 0 ELSE ArcCadence,
                          major_event_active |-> flag, current_arc |-> ArcAt(arc)]
        /\ current_arc_index = arc
        /\ latest_activation = IF flag THEN ArcActivation ELSE 0
    /\ running = TRUE
    /\ data_mutex = "free"
    /\ pc = [main |-> "summary", calc |-> "check", story |-> "check"]
    /\ calc_i = 2
    /\ old_price = 0
    /\ timers = {}

\* the day on which the price-model specification stops ticking
PriceLimit ==
    IF market_data.days_elapsed < ArcCadence
    THEN MaxPriceTicks
    ELSE ArcCadence + MaxPriceTicks

NextPrice ==
    \/ CalcCheck(PriceLimit)
    \/ CalcLock
    \/ CalcDays
    \/ CalcEntity(PriceVolDraws, PriceGrowthDraws)
    \/ CalcEvent
    \/ TimerFire

SpecPrice == InitPrice /\ [][NextPrice]_vars

-----------------------------------------------------------------------------
(* The year-end specification: the whole engine, with the price draws      *)
(* fixed, run for MaxYearTicks ticks from sampled states of a started      *)
(* engine two days before the end of its first year.  By then the fixed    *)
(* draws have taken every price to the cap.                                *)

\* the day of the sampled states
YearStart == DaysPerYear - 2

InitYear ==
    /\ \E arc \in ArcSamples, flag \in BOOLEAN :
        /\ flag => arc > 0
        /\ market_data = [current_year |-> 1, days_elapsed |-> YearStart,
                          major_event_active |-> flag, current_arc |-> ArcAt(arc)]
        /\ current_arc_index = arc
        /\ latest_activation = IF flag THEN ArcActivation ELSE 0
    /\ characters = [k \in DOMAIN Tracked |->
                         [Character(Roster[Tracked[k]]) EXCEPT !.current_price = MaxPrice]]
    /\ ref_price = [k \in DOMAIN Tracked |-> MaxPrice]
    /\ update_count = [k \in DOMAIN Tracked |-> YearStart]
    /\ running = TRUE
    /\ data_mutex = "free"
    /\ pc = [main |-> "summary", calc |-> "check", story |-> "check"]
    /\ calc_i = Len(Tracked) + 1
    /\ old_price = 0
    /\ timers = {}

NextYear ==
    \/ MainSummaryLock
    \/ MainSummaryUnlock
    \/ MainStop
    \/ MainJoinCalc
    \/ MainJoinStory
    \/ MainExit
    \/ CalcCheck(YearStart + MaxYearTicks)
    \/ CalcLock
    \/ CalcDays
    \/ CalcEntity(VolDraws, GrowthDraws)
    \/ CalcEvent
    \/ TimerFire
    \/ StoryCheck
    \/ StoryLock
    \/ StoryBody

SpecYear == InitYear /\ [][NextYear]_vars

-----------------------------------------------------------------------------
(* Vocabulary of the properties *)

\* the documented bootstrap range $0.40-$0.75, half-mills
BootstrapLow == 800
BootstrapHigh == 1500

PriceInRange(price) == MinPrice <= price /\ price <= MaxPrice

PricesInRange(prices) == \A price \in prices : PriceInRange(price)

ArcIndexes == 0 .. (Len(story_arcs) - 1)

\* the prices the Price Model can give a character under the context md: a
\* price of 0 consumes a draw of growth_factor, any other price a draw of
\* price_volatility
NextPrices(character, md) ==
    IF character.current_price = 0
    THEN {calculateNewPrice(character, md, 0, g) : g \in PriceGrowthDraws}
    ELSE {calculateNewPrice(character, md, v, GrowthFactorLow) : v \in PriceVolDraws}

\* the context with the arc and the active-event flag replaced
ContextWith(arc, flag) ==
    [market_data EXCEPT !.current_arc = ArcAt(arc), !.major_event_active = flag]

\* how many times the Update Loop has updated the k-th character
Updates(k) ==
    IF pc.calc = "loop" /\ calc_i <= k
    THEN market_data.days_elapsed - 1
    ELSE market_data.days_elapsed

\* the Update Loop has just stored the price of the character before calc_i
JustUpdated == pc.calc = "loop" /\ calc_i > 1 /\ (calc_i - 1) \in DOMAIN characters

\* thread t takes the step
Acted(t) == pc'[t] # pc[t] \/ (t = "calc" /\ calc_i' # calc_i)

-----------------------------------------------------------------------------
(* C1 *)

\* C1: in every reachable state every price is 0 or within [0.01, 10000];
\* whatever the draws, the arc and the event flag, the next price the Price
\* Model gives is within [0.01, 10000]; a non-zero price never becomes 0.
C1_PriceBounds ==
    /\ [](\A k \in DOMAIN characters :
            /\ characters[k].current_price = 0
                   \/ PriceInRange(characters[k].current_price)
            /\ \A arc \in ArcIndexes, flag \in BOOLEAN :
                   PricesInRange(NextPrices(characters[k], ContextWith(arc, flag))))
    /\ [][\A k \in DOMAIN characters :
            characters[k].current_price # 0 =>
                /\ k \in DOMAIN characters'
                /\ characters'[k].current_price # 0]_vars

\* C1 witness: a price above the floor has just been updated and the result
\* was clamped to the floor of 0.01
C1_Witness ==
    /\ JustUpdated
    /\ old_price > MinPrice
    /\ characters[calc_i - 1].current_price = MinPrice

-----------------------------------------------------------------------------
(* C2 *)

\* C2: while the deactivation that belongs to the latest activation of the
\* active-event flag has not fired, the flag is true: the timer of an earlier
\* activation does not clear it.
C2_StaleTimerHarmless ==
    latest_activation # 0 => market_data.major_event_active

-----------------------------------------------------------------------------
(* C3 *)

\* C3: when stopPriceCalculation has returned, no timer thread of the Event
\* Trigger is left that can still write major_event_active.
C3_NoTaskAfterStop == pc.main = "stopped" => timers = {}

-----------------------------------------------------------------------------
(* C4 *)

\* C4: after stopPriceCalculation has returned no character is mutated: the
\* prices and the percentage changes stay what they were when it returned.
C4_NoMutationAfterStop ==
    [][pc.main \in {"stopped", "exited"} => characters' = characters]_vars

\* C4 witness: stopPriceCalculation has returned while a price is still on
\* its way up, so that one more tick would change it
C4_Witness ==
    /\ pc.main = "stopped"
    /\ \E k \in DOMAIN characters :
        /\ characters[k].current_price > 0
        /\ characters[k].current_price < MaxPrice

-----------------------------------------------------------------------------
(* C5 *)

\* C5: every step of a background task that writes the market context, the
\* arc index or a character is taken by the task that holds data_mutex.
C5_WritesUnderLock ==
    [][(/\ \/ market_data' # market_data
           \/ characters' # characters
           \/ current_arc_index' # current_arc_index
        /\ ~Acted("main"))
       => \E t \in {"calc", "story"} : data_mutex = t /\ Acted(t)]_vars

-----------------------------------------------------------------------------
(* C6 *)

\* C6: the arc index stays within 0 .. len(story_arcs) - 1 and no step
\* decreases it.
C6_ArcIndex ==
    /\ [](current_arc_index \in ArcIndexes)
    /\ [][current_arc_index' >= current_arc_index]_vars

\* C6 witness: progressStory holds the lock on a multiple of 100 days with
\* the index already at the last arc
C6_Witness ==
    /\ pc.story = "body"
    /\ current_arc_index = Len(story_arcs) - 1
    /\ market_data.days_elapsed > 0
    /\ market_data.days_elapsed % ArcCadence = 0

-----------------------------------------------------------------------------
(* C7 *)

\* C7: with the same draws the prices are those of every other schedule of
\* the arc task and the timers, so those of the reference schedule.
C7_Deterministic ==
    \A k \in DOMAIN characters : characters[k].current_price = ref_price[k]

-----------------------------------------------------------------------------
(* C8 *)

\* C8: a character that has not been updated has price 0, a character that
\* has been updated once has a price within [0.40, 0.75], and from price 0
\* the Price Model gives a price within [0.40, 0.75] for every arc, event
\* flag and draw.
C8_Bootstrap ==
    \A k \in DOMAIN characters :
        /\ Updates(k) = 0 => characters[k].current_price = 0
        /\ Updates(k) = 1 =>
               /\ BootstrapLow <= characters[k].current_price
               /\ characters[k].current_price <= BootstrapHigh
        /\ characters[k].current_price = 0 =>
               \A arc \in ArcIndexes, flag \in BOOLEAN,
                  v \in PriceVolDraws, g \in PriceGrowthDraws :
                   LET new_price == calculateNewPrice(characters[k],
                                        ContextWith(arc, flag), v, g)
                   IN  BootstrapLow <= new_price /\ new_price <= BootstrapHigh

\* C8 witness: in the first tick the first character has its bootstrap price
\* and the next one is still at 0
C8_Witness ==
    /\ market_data.days_elapsed = 1
    /\ pc.calc = "loop"
    /\ calc_i = 2
    /\ characters[1].current_price >= BootstrapLow
    /\ characters[1].current_price <= BootstrapHigh
    /\ characters[2].current_price = 0

-----------------------------------------------------------------------------
(* C9 *)

\* C9: after a character's update the stored change is the whole-percent
\* floor of (new - old) / old * 100 when old > 0, is 100 when old = 0 and
\* new > 0, and is 0 when old = 0 and new = 0.
C9_PercentChange ==
    JustUpdated =>
        LET new == characters[calc_i - 1].current_price
            change == characters[calc_i - 1].weekly_change
        IN  /\ old_price > 0 =>
                   /\ change * old_price <= (new - old_price) * 100
                   /\ (new - old_price) * 100 < (change + 1) * old_price
            /\ (old_price = 0 /\ new > 0) => change = 100
            /\ (old_price = 0 /\ new = 0) => change = 0

\* C9 witness: a character whose price was above 0 has just been updated
\* and its price fell
C9_Witness ==
    /\ JustUpdated
    /\ old_price > 0
    /\ characters[calc_i - 1].current_price < old_price
    /\ characters[calc_i - 1].weekly_change < 0

-----------------------------------------------------------------------------
(* C10 *)

\* the price the Price Model gives the k-th character under the event flag
PriceUnder(k, flag, v, g) ==
    calculateNewPrice(characters[k],
                      [market_data EXCEPT !.major_event_active = flag], v, g)

\* C10 as stated: for any character state and identical draws, the price
\* with the flag true is exactly 1.5 times the price with the flag false.
C10_AlwaysOneAndAHalf ==
    \A k \in DOMAIN characters, v \in PriceVolDraws, g \in PriceGrowthDraws :
        2 * PriceUnder(k, TRUE, v, g) = 3 * PriceUnder(k, FALSE, v, g)

\* C10 amended: for a non-zero price and identical draws, when no clamp
\* applies (the price without the event is above 0.01 and the price with it
\* is below 10000) the price with the flag true is exactly 1.5 times the
\* price with the flag false; from price 0 the two prices are equal.
C10_EventFactor ==
    \A k \in DOMAIN characters, v \in PriceVolDraws, g \in PriceGrowthDraws :
        LET high == PriceUnder(k, TRUE, v, g)
            low == PriceUnder(k, FALSE, v, g)
        IN  /\ (/\ characters[k].current_price # 0
                /\ low > MinPrice
                /\ high < MaxPrice) => 2 * high = 3 * low
            /\ characters[k].current_price = 0 => high = low

\* C10 witness: a non-zero price has just been updated under an active event
\* and the stored price is 1.5 times the unclamped price of the same draw
\* without the event
C10_Witness ==
    /\ JustUpdated
    /\ old_price > 0
    /\ market_data.major_event_active
    /\ \E v \in PriceVolDraws :
        LET before == [characters[calc_i - 1] EXCEPT !.current_price = old_price]
            low == calculateNewPrice(
                       before, [market_data EXCEPT !.major_event_active = FALSE],
                       v, GrowthFactorLow)
            high == calculateNewPrice(before, market_data, v, GrowthFactorLow)
        IN  /\ characters[calc_i - 1].current_price = high
            /\ low > MinPrice
            /\ high < MaxPrice
            /\ 2 * high = 3 * low

-----------------------------------------------------------------------------
(* C11 *)

\* the price Scenario A expects after a price: price * time_factor *
\* reputation_factor * group_factor, with a volatility draw of 0 and no
\* event; time_factor is a numerator over 1000, the result is in half-mills
ScenarioPrice(character, time_factor) ==
    2 * MulDiv(MulDiv(MulDiv(character.current_price, time_factor, 2 * 1000),
                      BountyFactor(character), 5000),
               CrewFactor(character), 100)

\* 1 + growth_rate * 1.0 * boost over 1000, for an arc multiplier of 1.0
ScenarioTimeFactor(character, boost) ==
    1000 + character.base_growth_rate * 10 * boost

\* the characters of Scenario A: growth rate 0.1, repriced once, from 0
ScenarioA(k) ==
    /\ characters[k].base_growth_rate = 10
    /\ update_count[k] = 1
    /\ market_data.days_elapsed <= MaxPriceTicks

\* C11 as stated: the tick-2 price is the tick-1 price times (1 + 0.1 * 1.0)
\* times the reputation factor times the group factor.
C11_PlainGrowth ==
    \A k \in DOMAIN characters :
        ScenarioA(k) =>
            calculateNewPrice(characters[k], ContextWith(0, FALSE), 0, GrowthFactorLow)
                = ScenarioPrice(characters[k], ScenarioTimeFactor(characters[k], 1))

\* C11: an entity of growth rate 0.1 that starts at price 0 has a tick-1
\* price within [0.40, 0.75]; with arc multiplier 1.0, no event and a
\* volatility draw of 0 its tick-2 price is the tick-1 price times
\* (1 + 0.1 * 1.0 * 2) times the reputation factor times the group factor:
\* the tick-1 price is below the cold-start threshold, so the growth rate
\* counts twice.
C11_ScenarioA ==
    \A k \in DOMAIN characters :
        ScenarioA(k) =>
            /\ BootstrapLow <= characters[k].current_price
            /\ characters[k].current_price < BootstrapHigh
            /\ characters[k].current_price < ColdStartThreshold
            /\ calculateNewPrice(characters[k], ContextWith(0, FALSE), 0, GrowthFactorLow)
                   = ScenarioPrice(characters[k], ScenarioTimeFactor(characters[k], 2))

\* C11 witness: the second tick has just repriced an entity of growth rate
\* 0.1 with no event active, and the price it stored is the boosted one.
C11_Witness ==
    /\ JustUpdated
    /\ update_count[1] = 2
    /\ characters[1].base_growth_rate = 10
    /\ market_data.current_arc = ArcAt(0)
    /\ ~market_data.major_event_active
    /\ BootstrapLow <= old_price /\ old_price < BootstrapHigh
    /\ characters[1].current_price =
           ScenarioPrice([characters[1] EXCEPT !.current_price = old_price],
                         ScenarioTimeFactor(characters[1], 2))

-----------------------------------------------------------------------------
(* C12 *)

\* stopPriceCalculation has set running = false
ShutdownRequested == ~running /\ pc.main \notin {"load", "start"}

\* stopPriceCalculation has returned
ShutdownComplete == pc.main \in {"stopped", "exited"}

\* C12: once shutdown has been requested, under fair scheduling both loops
\* eventually leave while (running) and stopPriceCalculation eventually
\* returns, wherever the tick and the progression thread stand and whoever
\* holds data_mutex at that moment.
C12_ShutdownCompletes ==
    ShutdownRequested ~>
        (ShutdownComplete /\ pc.calc = "done" /\ pc.story = "done")

\* C12 witness: shutdown is requested while the progression thread holds
\* data_mutex and the tick waits for it.
C12_Witness ==
    /\ ShutdownRequested
    /\ pc.main = "join_calc"
    /\ data_mutex = "story"
    /\ pc.calc = "lock"

-----------------------------------------------------------------------------
(* C13 *)

\* the thread that holds data_mutex can take its next step whatever the
\* other threads do: nothing inside a critical section waits
HolderRuns ==
    /\ data_mutex = "calc" =>
           ENABLED (CalcDays \/ CalcEntity(VolDraws, GrowthDraws) \/ CalcEvent)
    /\ data_mutex = "story" => ENABLED StoryBody
    /\ data_mutex = "main" => ENABLED MainSummaryUnlock

\* the holder of data_mutex is inside its critical section
HolderInside ==
    /\ data_mutex = "calc" => pc.calc \in {"days", "loop"}
    /\ data_mutex = "story" => pc.story = "body"
    /\ data_mutex = "main" => pc.main = "in_summary"

\* C13: the system never deadlocks: until the process has ended some thread
\* can take a step, and whoever holds data_mutex is inside a critical
\* section whose next step (up to the release) waits for no other thread
\* and no other lock.
C13_NoDeadlock ==
    /\ pc.main = "exited" \/ ENABLED Next
    /\ HolderInside
    /\ HolderRuns

\* C13 witness: the tick and the progression thread both wait for
\* data_mutex while the summary holds it.
C13_Witness ==
    /\ data_mutex = "main"
    /\ pc.calc = "lock"
    /\ pc.story = "lock"

-----------------------------------------------------------------------------
(* C14 *)

\* C14: days_elapsed changes only in the step of a tick that holds
\* data_mutex, and then by exactly 1; current_year changes only in that
\* step, by 1, and exactly when the new days_elapsed is a multiple of 365;
\* so outside the critical section of the tick
\* current_year = 1 + floor(days_elapsed / 365).
C14_Calendar ==
    /\ [](data_mutex # "calc" =>
             market_data.current_year
                 = 1 + (market_data.days_elapsed \div DaysPerYear))
    /\ [][/\ market_data'.days_elapsed # market_data.days_elapsed =>
               /\ market_data'.days_elapsed = market_data.days_elapsed + 1
               /\ data_mutex = "calc" /\ data_mutex' = "calc"
               /\ Acted("calc")
           /\ market_data'.current_year =
                  IF /\ market_data'.days_elapsed # market_data.days_elapsed
                     /\ market_data'.days_elapsed % DaysPerYear = 0
                  THEN market_data.current_year + 1
                  ELSE market_data.current_year]_vars

\* C14 witness: the tick of day 365 is over and the second year has begun.
C14_Witness ==
    /\ data_mutex = "free"
    /\ market_data.days_elapsed = DaysPerYear
    /\ market_data.current_year = 2

-----------------------------------------------------------------------------
(* C15 *)

\* C15: the Arc Sequencer advances once for every multiple of 100 that
\* days_elapsed reaches, before the next multiple is reached: the index is
\* never above the number of multiples reached and never more than one
\* multiple behind, up to the last arc.
C15_Cadence ==
    LET reached == market_data.days_elapsed \div ArcCadence
        last == Len(story_arcs) - 1
    IN  /\ current_arc_index <= Min(reached, last)
        /\ Min(reached - 1, last) <= current_arc_index

-----------------------------------------------------------------------------
(* C16 *)

\* no thread is left that writes major_event_active: both loops have
\* returned and no timer thread is pending
FlagSettled == pc.calc = "done" /\ pc.story = "done" /\ timers = {}

\* C16: the event an arc advancement activates ends: once the last write of
\* the flag has happened, a flag that an arc advancement set last is false
\* again, also when the Event Trigger has not fired since.
C16_ArcEventEnds ==
    (FlagSettled /\ latest_activation = ArcActivation)
        => ~market_data.major_event_active

-----------------------------------------------------------------------------
(* C17 *)

\* C17: every deactivation the Event Trigger has scheduled runs: when the
\* process has ended no scheduled deactivation is left that has not run.
C17_DeactivationRuns == pc.main = "exited" => timers = {}

-----------------------------------------------------------------------------
(* C18 *)

\* the Arc Sequencer stands at the last arc
AtLastArc == current_arc_index = Len(story_arcs) - 1

\* C18: the last arc is terminal: once the index is at the last arc it
\* stays there, and every step of the Arc Sequencer taken there leaves
\* current_arc_index, current_arc and major_event_active as they were,
\* whatever days_elapsed is.
C18_LastArcTerminal ==
    [][AtLastArc =>
          /\ current_arc_index' = current_arc_index
          /\ market_data'.current_arc = market_data.current_arc
          /\ Acted("story") =>
                 market_data'.major_event_active = market_data.major_event_active]_vars

\* C18 witness: at the last arc, on a multiple of 100 days and with the
\* flag cleared by a timer, the Arc Sequencer is inside its critical section
\* again.
C18_Witness ==
    /\ AtLastArc
    /\ pc.story = "body"
    /\ market_data.days_elapsed % ArcCadence = 0
    /\ ~market_data.major_event_active

-----------------------------------------------------------------------------
(* C19 *)

\* C19: a tick reprices every character exactly once, in registry order,
\* inside one critical section: outside the critical section of the tick
\* every character has been repriced days_elapsed times; inside it the
\* characters already repriced are a prefix of the registry; a character is
\* repriced only by a step that holds data_mutex before and after.
C19_OneUpdatePerTick ==
    /\ [](\A k \in DOMAIN characters :
            /\ data_mutex # "calc" => update_count[k] = market_data.days_elapsed
            /\ update_count[k] \in {market_data.days_elapsed - 1,
                                    market_data.days_elapsed}
            /\ \A j \in DOMAIN characters :
                   j < k => update_count[j] >= update_count[k])
    /\ [][\A k \in DOMAIN characters :
             (characters'[k] # characters[k] \/ update_count'[k] # update_count[k]) =>
                 /\ data_mutex = "calc" /\ data_mutex' = "calc"
                 /\ update_count'[k] = update_count[k] + 1
                 /\ \A j \in DOMAIN characters :
                        j # k => update_count'[j] = update_count[j]]_vars

\* C19 witness: two ticks are over, data_mutex is free, and the last
\* character of the registry has been repriced twice.
C19_Witness ==
    /\ data_mutex = "free"
    /\ market_data.days_elapsed = 2
    /\ Len(characters) > 1
    /\ update_count[Len(characters)] = 2

-----------------------------------------------------------------------------
(* C20 *)

\* a tick has priced its first character and not yet its last
MidTick == pc.calc = "loop" /\ calc_i > 1 /\ calc_i \in DOMAIN characters

\* C20: within one tick the Price Model reads the same major_event_active
\* and the same current_arc for the first and for the last character: no
\* step taken between the two pricings changes either.
C20_StableContext ==
    [][MidTick =>
          /\ market_data'.major_event_active = market_data.major_event_active
          /\ market_data'.current_arc = market_data.current_arc]_vars

-----------------------------------------------------------------------------
(* C21 *)

\* the step is one of progressStory and writes the arc index, the arc name
\* or the active-event flag
StoryWrites ==
    /\ Acted("story")
    /\ \/ current_arc_index' # current_arc_index
       \/ market_data'.current_arc # market_data.current_arc
       \/ market_data'.major_event_active # market_data.major_event_active

\* C21 as stated: no step of progressStory that follows running = false
\* writes current_arc_index, current_arc or major_event_active.
C21_NoWriteAfterSignal == [][ShutdownRequested => ~StoryWrites]_vars

\* C21: after running = false progressStory only finishes the iteration it
\* had begun: a step of it that writes current_arc_index, current_arc or
\* major_event_active is the body of an iteration whose while (running)
\* test came before the signal, the next test of running ends the loop, and
\* once the loop has ended the thread takes no step; so at most one
\* advancement follows the signal, and none follows the return of
\* stopPriceCalculation.
C21_OnlyIterationInFlight ==
    [][ShutdownRequested =>
          /\ StoryWrites => pc.story = "body" /\ pc'.story = "check"
          /\ pc.story = "check" => pc'.story \in {"check", "done"}
          /\ pc.story = "done" => pc'.story = "done"
          /\ ShutdownComplete => ~StoryWrites]_vars

\* C21 witness: running is false, and progressStory, past its test of
\* running, holds data_mutex on day 100 with an arc left to advance to.
C21_Witness ==
    /\ ShutdownRequested
    /\ pc.story = "body"
    /\ data_mutex = "story"
    /\ market_data.days_elapsed = ArcCadence
    /\ NotAtLastArc(current_arc_index)

====
